---- MODULE Spec2Model ----
(***************************************************************************)
(* Model of the kitchen-nightmares game core: the keyboard listeners and   *)
(* InputSystem.update (src/src/systems/InputSystem.ts), the system         *)
(* pipeline registered by initGame and the animate() host loop             *)
(* (src/src/core/Game.ts), and the Health component                        *)
(* (src/unnamed/part_000).  World, GameController, HitPauseService and the *)
(* combat systems are not among the source files; they are modelled from   *)
(* the written specification of the engine (sections 4.2, 4.3 and 5).      *)
(***************************************************************************)
EXTENDS Integers, Sequences, FiniteSets, TLC

VARIABLES
    keys,        \* InputSystem.keys: the codes of the keys currently held
    gameState,   \* GameController: "playing" or "paused"
    hasInput,    \* the entities that hold an Input component
    input,       \* entity -> Input component
    armed,       \* the entities that hold the component PlayerAttackSystem needs
    hasHealth,   \* the entities that hold a Health component
    health,      \* entity -> Health component
    attacks,     \* attack id -> the hitbox entity of that attack instance
    lastFrame,   \* what the last animate() did: delta, world.update calls, systems run
    observed,    \* entity -> the intents DashSystem / PlayerAttackSystem read last
    hist,        \* history: key snapshots of the last two updates, presses, hits
    twin,        \* a second run of the keyboard and InputSystem, for comparison
    host         \* the animation loop: the pending frame request, the teardown

vars == <<keys, gameState, hasInput, input, armed, hasHealth, health, attacks,
          lastFrame, observed, hist, twin, host>>

----------------------------------------------------------------------------
(* Bounds of the model *)

MaxDelta == 2
MaxAttacks == 2
MaxHealth == 3
MaxHeld == 3

Entities == {1, 2}
AttackIds == 1..MaxAttacks
Deltas == 0..MaxDelta

(* The key codes InputSystem.update reads. *)
EdgeKeys == {"Space", "ShiftLeft", "ShiftRight"}
InputKeys == EdgeKeys \cup {"Escape"}
CombatKeys == {"Space"}
DirectionKeys == {"KeyW", "ArrowUp", "KeyS", "ArrowDown",
                  "KeyA", "ArrowLeft", "KeyD", "ArrowRight"}

----------------------------------------------------------------------------
(* GameController *)

currentGameState(gs) == gs
pauseGame(gs) == "paused"
resumeGame(gs) == "playing"

----------------------------------------------------------------------------
(* Input component and InputSystem *)

NewInput ==
    [up |-> FALSE, down |-> FALSE, left |-> FALSE, right |-> FALSE,
     attack |-> FALSE, dash |-> FALSE,
     attackPressedLastFrame |-> FALSE, dashPressedLastFrame |-> FALSE,
     pausePressedLastFrame |-> FALSE]

(* line 20 *)
EscapeDown(ks) == "Escape" \in ks

(* line 30 *)
DashKeyDown(ks) == "ShiftLeft" \in ks \/ "ShiftRight" \in ks

(* line 42 *)
AttackKeyDown(ks) == "Space" \in ks

(* lines 22-28: the pause toggle on an Escape edge *)
TogglePause(gs, escapeDown, pausePressedLastFrame) ==
    IF escapeDown /\ ~pausePressedLastFrame
    THEN IF currentGameState(gs) = "playing" THEN pauseGame(gs) ELSE resumeGame(gs)
    ELSE gs

(* lines 22-28: the number of pauseGame / resumeGame calls the toggle makes *)
PauseCalls(escapeDown, pausePressedLastFrame) ==
    IF escapeDown /\ ~pausePressedLastFrame THEN 1 ELSE 0

(* Faulty variants of the edge expressions: the intent follows the held key. *)
DashIntentHeld(dashKeyDown, in) == dashKeyDown
AttackIntentHeld(attackKeyDown, in) == attackKeyDown
(* Faulty variant: the dash edge reads the attack shadow flag. *)
DashIntentCrossed(dashKeyDown, in) == dashKeyDown /\ ~in.attackPressedLastFrame

(* line 33 *)
DashIntent(dashKeyDown, in) == dashKeyDown /\ ~in.dashPressedLastFrame

(* line 45 *)
AttackIntent(attackKeyDown, in) == attackKeyDown /\ ~in.attackPressedLastFrame

(* Faulty variant of the shadow store: the flag is set only when the edge
   fired. *)
AttackShadowOnEdge(attackKeyDown, in) ==
    IF attackKeyDown /\ ~in.attackPressedLastFrame THEN TRUE
    ELSE in.attackPressedLastFrame

(* lines 34, 36, 48 *)
DashShadow(dashKeyDown, in) == dashKeyDown
PauseShadow(escapeDown, in) == escapeDown
AttackShadow(attackKeyDown, in) == attackKeyDown

(* Faulty variant of the writes: up is raised on the edge of its keys. *)
WriteInputUpOnEdge(in, ks) ==
    [up |-> ("KeyW" \in ks \/ "ArrowUp" \in ks) /\ ~in.up,
     down |-> "KeyS" \in ks \/ "ArrowDown" \in ks,
     left |-> "KeyA" \in ks \/ "ArrowLeft" \in ks,
     right |-> "KeyD" \in ks \/ "ArrowRight" \in ks,
     attack |-> AttackIntent(AttackKeyDown(ks), in),
     dash |-> DashIntent(DashKeyDown(ks), in),
     attackPressedLastFrame |-> AttackShadow(AttackKeyDown(ks), in),
     dashPressedLastFrame |-> DashShadow(DashKeyDown(ks), in),
     pausePressedLastFrame |-> PauseShadow(EscapeDown(ks), in)]

(* lines 30-48: the fields written to one entity's Input component *)
WriteInput(in, ks) ==
    [up |-> "KeyW" \in ks \/ "ArrowUp" \in ks,
     down |-> "KeyS" \in ks \/ "ArrowDown" \in ks,
     left |-> "KeyA" \in ks \/ "ArrowLeft" \in ks,
     right |-> "KeyD" \in ks \/ "ArrowRight" \in ks,
     attack |-> AttackIntent(AttackKeyDown(ks), in),
     dash |-> DashIntent(DashKeyDown(ks), in),
     attackPressedLastFrame |-> AttackShadow(AttackKeyDown(ks), in),
     dashPressedLastFrame |-> DashShadow(DashKeyDown(ks), in),
     pausePressedLastFrame |-> PauseShadow(EscapeDown(ks), in)]

(* Faulty variant of the loop body: no hasComponent test. *)
InputEntityStepUnguarded(w, e, ks) ==
    [w EXCEPT
       !.gameState = TogglePause(w.gameState, EscapeDown(ks),
                                 w.input[e].pausePressedLastFrame),
       !.toggles = @ + PauseCalls(EscapeDown(ks),
                                  w.input[e].pausePressedLastFrame),
       !.input[e] = WriteInput(w.input[e], ks)]

(* lines 17-49: the loop body for one entity *)
InputEntityStep(w, e, ks) ==
    IF e \in w.hasInput
    THEN [w EXCEPT
            !.gameState = TogglePause(w.gameState, EscapeDown(ks),
                                      w.input[e].pausePressedLastFrame),
            !.toggles = @ + PauseCalls(EscapeDown(ks),
                                       w.input[e].pausePressedLastFrame),
            !.input[e] = WriteInput(w.input[e], ks)]
    ELSE w

(* lines 15-51: the loop over world.entities in insertion order *)
RECURSIVE InputLoop(_, _, _)
InputLoop(w, e, ks) ==
    IF e \notin Entities THEN w
    ELSE InputLoop(InputEntityStep(w, e, ks), e + 1, ks)

InputSystem_update(w, ks) == InputLoop(w, 1, ks)

----------------------------------------------------------------------------
(* Health component, attack hitboxes and the combat systems *)

AttackDamage == 2
AttackLifespan == 3
InvulnCooldowns == {0, 2}

NewHealth(cooldown) ==
    [current |-> MaxHealth, max |-> MaxHealth, pendingDamage |-> 0,
     recentlyHitBy |-> {}, invulnerableCooldown |-> cooldown,
     invulnerableRemaining |-> 0]

(* A hitbox entity: "unspawned", "spawning" (created this frame, attached at the
   end-of-frame flush), "active", and "gone" once destroyed; doomed marks a
   destroy deferred to the flush. *)
NewAttack == [state |-> "unspawned", life |-> 0, doomed |-> FALSE]

Present(w, a) == w.attacks[a].state = "active"

Min(x, y) == IF x < y THEN x ELSE y
Max(x, y) == IF x > y THEN x ELSE y
Clamp(x, lo, hi) == Max(lo, Min(x, hi))

(* DashSystem reads input.dash of every Input entity. *)
DashSystem_update(w) ==
    [w EXCEPT !.observed = [e \in Entities |->
        IF e \in w.hasInput THEN [@[e] EXCEPT !.dash = w.input[e].dash] ELSE @[e]]]

(* PlayerAttackSystem reads input.attack of every entity that holds an Input
   component and the attack component, and spawns one attack hitbox per entity
   whose attack intent is set, while fresh attack ids remain. *)
RECURSIVE AttackLoop(_, _)
AttackLoop(w, e) ==
    IF e \notin Entities THEN w
    ELSE IF e \notin w.hasInput \cap w.armed THEN AttackLoop(w, e + 1)
    ELSE LET seen == [w EXCEPT !.observed[e].attack = w.input[e].attack]
             free == {a \in AttackIds : seen.attacks[a].state = "unspawned"}
             a0 == CHOOSE a \in free : \A b \in free : a <= b
         IN  IF seen.input[e].attack /\ free # {}
             THEN AttackLoop([seen EXCEPT !.attacks[a0] =
                     [state |-> "spawning", life |-> AttackLifespan,
                      doomed |-> FALSE]], e + 1)
             ELSE AttackLoop(seen, e + 1)

PlayerAttackSystem_update(w) == AttackLoop(w, 1)

(* LifespanSystem: counts every hitbox's lifespan down by the elapsed time; an
   expired attack has its id cleared from every recentlyHitBy and its entity
   scheduled for destruction. *)
Expired(w, a, dt) == Present(w, a) /\ ~w.attacks[a].doomed /\ w.attacks[a].life - dt <= 0

LifespanSystem_update(w, dt) ==
    LET gone == {a \in AttackIds : Expired(w, a, dt)}
    IN  [w EXCEPT
          !.attacks = [a \in AttackIds |->
              IF Present(w, a) /\ ~@[a].doomed
              THEN [@[a] EXCEPT !.life = Max(0, @ - dt), !.doomed = a \in gone]
              ELSE @[a]],
          !.health = [e \in Entities |->
              IF e \in w.hasHealth
              THEN [@[e] EXCEPT !.recentlyHitBy = @ \ gone]
              ELSE @[e]]]

(* Faulty variant of the damage application: the invulnerability window is
   not consulted. *)
HitAcceptedWhileInvulnerable(h, a) ==
    /\ h.current > 0
    /\ a \notin h.recentlyHitBy

(* Damage application, steps 1-3: the hit is ignored when the defender is dead
   or invulnerable, or already hit by this attack instance. *)
HitAccepted(h, a) ==
    /\ h.current > 0
    /\ h.invulnerableRemaining <= 0
    /\ a \notin h.recentlyHitBy

(* step 4 *)
ApplyHit(h, a) ==
    [h EXCEPT !.recentlyHitBy = @ \cup {a},
              !.pendingDamage = @ + AttackDamage]

(* DamageSystem: every hitbox in the entity store against every overlapping
   hurtbox, in attack id order. *)
RECURSIVE DamageLoop(_, _, _)
DamageLoop(w, a, ov) ==
    IF a \notin AttackIds THEN w
    ELSE LET hit == {e \in w.hasHealth :
                        /\ Present(w, a)
                        /\ <<a, e>> \in ov
                        /\ HitAccepted(w.health[e], a)}
             shielded == \E e \in w.hasHealth :
                             /\ Present(w, a)
                             /\ <<a, e>> \in ov
                             /\ w.health[e].current > 0
                             /\ w.health[e].invulnerableRemaining > 0
                             /\ a \notin w.health[e].recentlyHitBy
         IN  DamageLoop(
               [w EXCEPT
                  !.blocked = @ \/ shielded,
                  !.health = [e \in Entities |->
                      IF e \in hit THEN ApplyHit(@[e], a) ELSE @[e]],
                  !.hits = [e \in Entities |->
                      IF e \in hit THEN [@[e] EXCEPT ![a] = @ + 1] ELSE @[e]]],
               a + 1, ov)

DamageSystem_update(w, ov) == DamageLoop(w, 1, ov)

MaxOver(S) == IF S = {} THEN 0 ELSE CHOOSE x \in S : \A y \in S : y <= x

(* Faulty variant of the health resolution: no clamp. *)
ResolveUnclamped(h) == h.current - h.pendingDamage

(* step 5: current -= pendingDamage, clamped to [0, max] *)
Resolve(h) == Clamp(h.current - h.pendingDamage, 0, h.max)

(* HealthSystem for one Health component: the invulnerability countdown, then
   the resolution of the damage accumulated this frame. *)
HealthStep(h, dt) ==
    LET cooled == [h EXCEPT !.invulnerableRemaining = Max(0, @ - dt)]
        cur == Resolve(cooled)
    IN  IF cooled.pendingDamage > 0 /\ cooled.current > 0
        THEN [cooled EXCEPT
                !.current = cur,
                !.pendingDamage = 0,
                !.invulnerableRemaining =
                    IF cur > 0 THEN cooled.invulnerableCooldown ELSE @]
        ELSE [cooled EXCEPT !.pendingDamage = 0]

Died(h) == h.pendingDamage > 0 /\ h.current > 0 /\ Resolve(h) <= 0

HealthSystem_update(w, dt) ==
    LET dying == {e \in w.hasHealth : Died(w.health[e])}
    IN  [w EXCEPT
          !.health = [e \in Entities |->
              IF e \in w.hasHealth THEN HealthStep(@[e], dt) ELSE @[e]],
          !.deaths = [e \in Entities |-> IF e \in dying THEN @[e] + 1 ELSE @[e]],
          !.resolved = MaxOver({w.health[e].pendingDamage : e \in w.hasHealth}),
          !.doomedEntities = @ \cup dying]

----------------------------------------------------------------------------
(* World *)

(* Faulty variant of the registration order: HealthSystem registered before
   DamageSystem. *)
SystemsHealthFirst ==
    <<"InputSystem", "VelocitySystem", "DashSystem", "MovementSystem",
      "EnemyAISystem", "RenderSystem", "RotationSystem", "PlayerAttackSystem",
      "LifespanSystem", "FireProjectileSystem", "HealthSystem",
      "DamageFlashSystem", "HealthBarSystem", "DamageSystem", "CameraSystem",
      "DebugDrawSystem", "RoomExitDetectionSystem", "SpriteAnimationSystem",
      "SpriteAnimationStateSystem", "CrosshairSystem">>

(* Game.ts lines 134-160: the systems in registration order *)
Systems ==
    <<"InputSystem", "VelocitySystem", "DashSystem", "MovementSystem",
      "EnemyAISystem", "RenderSystem", "RotationSystem", "PlayerAttackSystem",
      "LifespanSystem", "FireProjectileSystem", "DamageSystem",
      "DamageFlashSystem", "HealthBarSystem", "HealthSystem", "CameraSystem",
      "DebugDrawSystem", "RoomExitDetectionSystem", "SpriteAnimationSystem",
      "SpriteAnimationStateSystem", "CrosshairSystem">>

(* One system's update, on the world as the systems before it left it; the
   systems that touch no modelled component only take their turn. *)
RunSystem(name, world, dt, ks, ov) ==
    CHOOSE r \in
        {[(CASE name = "InputSystem" -> InputSystem_update(w, ks)
             [] name = "DashSystem" -> DashSystem_update(w)
             [] name = "PlayerAttackSystem" -> PlayerAttackSystem_update(w)
             [] name = "LifespanSystem" -> LifespanSystem_update(w, dt)
             [] name = "DamageSystem" -> DamageSystem_update(w, ov)
             [] name = "HealthSystem" -> HealthSystem_update(w, dt)
             [] OTHER -> w) EXCEPT !.ran = Append(@, name)] : w \in {world}} :
        TRUE

RECURSIVE RunSystems(_, _, _, _, _)
RunSystems(w, i, dt, ks, ov) ==
    IF i > Len(Systems) THEN w
    ELSE RunSystems(RunSystem(Systems[i], w, dt, ks, ov), i + 1, dt, ks, ov)

(* Faulty variant of the flush: the entities scheduled for destruction stay
   in the entity store. *)
FlushKeepsEntities(w) ==
    [w EXCEPT
       !.attacks = [a \in AttackIds |->
           IF @[a].doomed THEN [state |-> "gone", life |-> 0, doomed |-> FALSE]
           ELSE IF @[a].state = "spawning" THEN [@[a] EXCEPT !.state = "active"]
           ELSE @[a]],
       !.doomedEntities = {}]

(* The end-of-frame flush of deferred destroys and creates. *)
Flush(w) ==
    [w EXCEPT
       !.attacks = [a \in AttackIds |->
           IF @[a].doomed THEN [state |-> "gone", life |-> 0, doomed |-> FALSE]
           ELSE IF @[a].state = "spawning" THEN [@[a] EXCEPT !.state = "active"]
           ELSE @[a]],
       !.hasHealth = @ \ w.doomedEntities,
       !.hasInput = @ \ w.doomedEntities,
       !.doomedEntities = {}]

(* World.update: the registered systems in order, none once clear() has
   detached them, then the flush. *)
World_update(w, dt, ks, ov) ==
    IF w.detached
    THEN Flush([w EXCEPT !.calls = @ + 1, !.given = @ \cup {dt}])
    ELSE Flush(RunSystems([w EXCEPT !.calls = @ + 1, !.given = @ \cup {dt}],
                          1, dt, ks, ov))

(* World.clear: destroys all entities and detaches all systems. *)
World_clear(w) ==
    [w EXCEPT
       !.hasInput = {}, !.armed = {}, !.hasHealth = {},
       !.attacks = [a \in AttackIds |->
           IF @[a].state \in {"spawning", "active"}
           THEN [state |-> "gone", life |-> 0, doomed |-> FALSE]
           ELSE @[a]],
       !.doomedEntities = {},
       !.detached = TRUE]

----------------------------------------------------------------------------
(* The host loop *)

(* HitPauseService.update: the time-scaled delta; zero while the game is
   paused or a hit-pause freezes time (scale 0). *)
hitPauseService_update(rawDelta, scale, gs) ==
    IF gs = "paused" THEN 0 ELSE rawDelta * scale

(* Faulty variant of the guard of animate(): the update runs on every frame. *)
ShouldUpdateAlways(delta) == delta >= 0

(* Game.ts line 171 *)
ShouldUpdate(delta) == delta > 0

(* The world as the systems see it, from the state variables. *)
TheWorld ==
    [gameState |-> gameState, hasInput |-> hasInput, input |-> input,
     armed |-> armed, hasHealth |-> hasHealth, health |-> health,
     attacks |-> attacks, observed |-> observed, hits |-> hist.hits,
     deaths |-> hist.deaths, doomedEntities |-> {}, ran |-> <<>>, calls |-> 0,
     given |-> {}, resolved |-> 0, blocked |-> FALSE, toggles |-> 0,
     detached |-> host.cleared]

ShiftKeys == {"ShiftLeft", "ShiftRight"}

AttackFired(w) == \E e \in hasInput : w.input[e].attack
DashFired(w) == \E e \in hasInput : w.input[e].dash

Group(k) == IF k = "Space" THEN "attack"
            ELSE IF k = "Escape" THEN "pause" ELSE "dash"

(* The history kept at a world.update: the keys held at it, whether the attack
   and dash keys were held at the update before it, and whether an intent was
   raised that no physical press since the last update accounts for. *)
HistAfterUpdate(w) ==
    [snap |-> keys,
     heldPrev |-> [attack |-> "Space" \in hist.snap,
                   dash |-> hist.snap \cap ShiftKeys # {},
                   up |-> hist.snap \cap {"KeyW", "ArrowUp"} # {}],
     prevIntent |-> [e \in Entities |->
                        [attack |-> input[e].attack, dash |-> input[e].dash]],
     pending |-> {},
     spurious |-> \/ hist.spurious
                  \/ AttackFired(w) /\ "attack" \notin hist.pending
                  \/ DashFired(w) /\ "dash" \notin hist.pending,
     hits |-> w.hits,
     deaths |-> w.deaths]

(* Game.ts line 193: cancelAnimationFrame on the pending request *)
cancelAnimationFrame(request) == "cancelled"

(* Game.ts line 177: the request for the next frame *)
requestAnimationFrame(request) == "scheduled"

(* The loop after a frame: its next request, and whether the frame called
   world.update on a world that clear() had emptied. *)
HostAfterFrame(w, tornDown) ==
    [request |-> requestAnimationFrame(host.request),
     cleared |-> host.cleared \/ tornDown,
     updatedAfter |-> host.updatedAfter \/ (host.cleared /\ w.calls > 0)]

(* The state after world.update(dt) on the current world. *)
Updated(w, frame) ==
    /\ gameState' = w.gameState
    /\ hasInput' = w.hasInput
    /\ armed' = w.armed
    /\ input' = w.input
    /\ hasHealth' = w.hasHealth
    /\ health' = w.health
    /\ attacks' = w.attacks
    /\ observed' = w.observed
    /\ hist' = HistAfterUpdate(w)
    /\ lastFrame' = frame

(* What one frame did: whether its delta was positive, how many times
   world.update was called, whether every call was given that delta, the
   systems that ran, in order, the largest damage resolved, whether a hit
   was refused for the invulnerability of its target alone, and the number of
   pauseGame and resumeGame calls. *)
Frame(delta, w) ==
    [n |-> 1, positive |-> delta > 0, calls |-> w.calls,
     given |-> w.given = {delta}, ran |-> w.ran, resolved |-> w.resolved,
     blocked |-> w.blocked, toggles |-> w.toggles]

(* window 'keydown' listener, InputSystem.ts line 11 *)
KeyDown(k) ==
    /\ keys' = keys \cup {k}
    /\ hist' = [hist EXCEPT !.pending =
                   IF k \in InputKeys /\ k \notin keys THEN @ \cup {Group(k)}
                   ELSE @]
    /\ UNCHANGED <<gameState, hasInput, input, armed, hasHealth, health, attacks,
                   lastFrame, observed, twin, host>>

(* window 'keyup' listener, InputSystem.ts line 12 *)
KeyUp(k) ==
    /\ keys' = keys \ {k}
    /\ UNCHANGED <<gameState, hasInput, input, armed, hasHealth, health, attacks,
                   lastFrame, observed, hist, twin, host>>

(* Component store set(entity, Input, value): an entity is given a new Input
   component between two frames. *)
AddInput(e) ==
    /\ e \notin hasInput
    /\ hasInput' = hasInput \cup {e}
    /\ input' = [input EXCEPT ![e] = NewInput]
    /\ UNCHANGED <<keys, gameState, armed, hasHealth, health, attacks,
                   lastFrame, observed, hist, twin, host>>

(* The hitbox / hurtbox overlaps a frame may see: any set of pairs of a hitbox
   in the entity store and an entity with a Health component. *)
Overlaps ==
    SUBSET ({a \in AttackIds : attacks[a].state = "active"} \X hasHealth)

(* Game.ts lines 167-178: one animation frame *)
animate ==
    \E rawDelta \in Deltas, scale \in {0, 1},
       ov \in Overlaps :
        LET delta == hitPauseService_update(rawDelta, scale, gameState)
        IN  /\ host.request = "scheduled"
            /\ UNCHANGED <<keys, twin>>
            /\ IF ShouldUpdate(delta)
               THEN \E w \in {World_update(TheWorld, delta, keys, ov)} :
                        /\ Updated(w, Frame(delta, w))
                        /\ host' = HostAfterFrame(w, FALSE)
               ELSE /\ lastFrame' = Frame(delta, TheWorld)
                    /\ host' = HostAfterFrame(TheWorld, FALSE)
                    /\ UNCHANGED <<gameState, hasInput, input, armed, hasHealth,
                                   health, attacks, observed, hist>>

(* Game.ts lines 192-228, called between two frames: the cleanup function
   that initGame returned. *)
cleanup ==
    /\ lastFrame.n = 1
    /\ ~host.cleared
    /\ host' = [host EXCEPT !.request = cancelAnimationFrame(@),
                            !.cleared = TRUE]
    /\ \E w \in {World_clear(TheWorld)} :
          /\ hasInput' = w.hasInput
          /\ armed' = w.armed
          /\ hasHealth' = w.hasHealth
          /\ attacks' = w.attacks
    /\ UNCHANGED <<keys, gameState, input, health, lastFrame, observed, hist,
                   twin>>

(* One animation frame in which an onDeath callback, invoked by HealthSystem
   inside world.update, calls the cleanup function: cancelAnimationFrame is
   given the request that started this very frame, world.clear() empties the
   world, and the frame goes on to line 177. *)
animate_cleanup ==
    \E rawDelta \in Deltas, scale \in {0, 1},
       ov \in Overlaps :
        LET delta == hitPauseService_update(rawDelta, scale, gameState)
        IN  /\ host.request = "scheduled"
            /\ ~host.cleared
            /\ ShouldUpdate(delta)
            /\ UNCHANGED <<keys, twin>>
            /\ \E w \in {World_update(TheWorld, delta, keys, ov)} :
                  /\ w.deaths # hist.deaths
                  /\ Updated(World_clear(w), Frame(delta, w))
                  /\ host' = HostAfterFrame(w, TRUE)

(* world.update(0) called directly on the registered pipeline *)
UpdateZero ==
    /\ UNCHANGED <<keys, twin, host>>
    /\ \E ov \in Overlaps :
         LET w == World_update(TheWorld, 0, keys, ov)
         IN  Updated(w, Frame(0, w))

----------------------------------------------------------------------------
(* Specifications *)

NewHist ==
    [snap |-> {},
     heldPrev |-> [attack |-> FALSE, dash |-> FALSE, up |-> FALSE],
     prevIntent |-> [e \in Entities |-> [attack |-> FALSE, dash |-> FALSE]],
     pending |-> {}, spurious |-> FALSE,
     hits |-> [e \in Entities |-> [a \in AttackIds |-> 0]],
     deaths |-> [e \in Entities |-> 0]]

NoFrame ==
    [n |-> 0, positive |-> FALSE, calls |-> 0, given |-> FALSE, ran |-> <<>>,
     resolved |-> 0, blocked |-> FALSE, toggles |-> 0]

(* The loop as initGame leaves it: a frame requested, nothing torn down. *)
NewHost == [request |-> "scheduled", cleared |-> FALSE, updatedAfter |-> FALSE]

NoTwin == [shared |-> "none", keys |-> {}, gameState |-> "playing",
           input |-> [e \in Entities |-> NewInput]]

InitCommon ==
    /\ keys = {}
    /\ gameState = "playing"
    /\ input = [e \in Entities |-> NewInput]
    /\ attacks = [a \in AttackIds |-> NewAttack]
    /\ lastFrame = NoFrame
    /\ observed = [e \in Entities |-> [attack |-> FALSE, dash |-> FALSE]]
    /\ hist = NewHist
    /\ twin = NoTwin
    /\ host = NewHost

(* A world of entities with Input components and nothing to damage. *)
Init ==
    /\ InitCommon
    /\ hasInput \in {{1}, {1, 2}}
    /\ armed = {}
    /\ hasHealth = {}
    /\ health = [e \in Entities |-> NewHealth(0)]

(* A player (entity 1, Input) attacking entities with Health components: one
   enemy, without or with an invulnerability window, or the enemy and the
   player itself, with the window. *)
InitCombat ==
    /\ InitCommon
    /\ hasInput = {1}
    /\ armed = {1}
    /\ \E c \in InvulnCooldowns :
         /\ hasHealth \in IF c = 0 THEN {{2}} ELSE {{2}, {1, 2}}
         /\ health = [e \in Entities |-> NewHealth(c)]

(* An entity with an Input component and one with a Health component and no
   Input component, which may be given one later. *)
InitEntities ==
    /\ InitCommon
    /\ hasInput = {1}
    /\ armed = {}
    /\ hasHealth = {2}
    /\ health = [e \in Entities |-> NewHealth(0)]

Next ==
    \/ \E k \in InputKeys : KeyDown(k)
    \/ \E k \in InputKeys : KeyUp(k)
    \/ animate

NextCombat ==
    \/ \E k \in CombatKeys : KeyDown(k)
    \/ \E k \in CombatKeys : KeyUp(k)
    \/ animate

NextApi ==
    \/ \E k \in InputKeys : KeyDown(k)
    \/ \E k \in InputKeys : KeyUp(k)
    \/ animate
    \/ UpdateZero

(* One key of each edge-triggered intent and the pause key. *)
EntityKeys == {"Space", "ShiftLeft", "Escape"}

NextEntities ==
    \/ \E k \in EntityKeys : KeyDown(k)
    \/ \E k \in EntityKeys : KeyUp(k)
    \/ \E e \in Entities : AddInput(e)
    \/ animate

(* One entity with an Input component; the keys of the pause toggle and of
   one intent. *)
LiveKeys == {"Escape", "Space"}

InitLive ==
    /\ InitCommon
    /\ hasInput = {1}
    /\ armed = {}
    /\ hasHealth = {}
    /\ health = [e \in Entities |-> NewHealth(0)]

NextLive ==
    \/ \E k \in LiveKeys : KeyDown(k)
    \/ \E k \in LiveKeys : KeyUp(k)
    \/ animate

(* The direction keys, at most MaxHeld of them held at once. *)
NextDirections ==
    \/ \E k \in DirectionKeys : Cardinality(keys \cup {k}) <= MaxHeld /\ KeyDown(k)
    \/ \E k \in DirectionKeys : KeyUp(k)
    \/ animate

NextTeardown ==
    \/ \E k \in CombatKeys : KeyDown(k)
    \/ \E k \in CombatKeys : KeyUp(k)
    \/ animate
    \/ animate_cleanup
    \/ cleanup

Spec == Init /\ [][Next]_vars
SpecDirections == Init /\ [][NextDirections]_vars
SpecTeardown == InitCombat /\ [][NextTeardown]_vars
(* requestAnimationFrame (Game.ts line 177) schedules the next animate() at
   the end of every animate(): the frames never stop coming. *)
SpecLive == InitLive /\ [][NextLive]_vars /\ WF_vars(animate)
SpecEntities == InitEntities /\ [][NextEntities]_vars
SpecCombat == InitCombat /\ [][NextCombat]_vars
SpecApi == Init /\ [][NextApi]_vars

----------------------------------------------------------------------------
(* Two runs of the keyboard listeners and InputSystem.update side by side.
   The runs receive the same events for the keys of one intent (twin.shared:
   the Shift keys for "dash", Space for "attack") and the same update calls;
   every other key event reaches one run only. *)

PairKeys == InputKeys \cup {"KeyW"}
SharedKeys == IF twin.shared = "dash" THEN ShiftKeys ELSE {"Space"}
(* The keys whose events the first and the second run receive alone. *)
FirstKeys == IF twin.shared = "dash" THEN {"Space", "Escape"}
             ELSE {"ShiftLeft", "Escape"}
SecondKeys == FirstKeys \cup {"KeyW"}

TwinWorld == [TheWorld EXCEPT !.gameState = twin.gameState, !.input = twin.input]

InitPair ==
    /\ keys = {}
    /\ gameState = "playing"
    /\ input = [e \in Entities |-> NewInput]
    /\ attacks = [a \in AttackIds |-> NewAttack]
    /\ lastFrame = NoFrame
    /\ observed = [e \in Entities |-> [attack |-> FALSE, dash |-> FALSE]]
    /\ hist = NewHist
    /\ host = NewHost
    /\ hasInput = {1}
    /\ armed = {}
    /\ hasHealth = {}
    /\ health = [e \in Entities |-> NewHealth(0)]
    /\ \E sh \in {"dash", "attack"} : twin = [NoTwin EXCEPT !.shared = sh]

PairFrame == UNCHANGED <<hasInput, armed, hasHealth, health, attacks, lastFrame,
                         observed, hist, host>>

(* a key event both runs receive *)
SharedKey(k, down) ==
    /\ k \in SharedKeys
    /\ keys' = IF down THEN keys \cup {k} ELSE keys \ {k}
    /\ twin' = [twin EXCEPT !.keys = IF down THEN @ \cup {k} ELSE @ \ {k}]
    /\ UNCHANGED <<gameState, input>>
    /\ PairFrame

(* a key event of the first run only *)
FirstKey(k, down) ==
    /\ k \in FirstKeys
    /\ keys' = IF down THEN keys \cup {k} ELSE keys \ {k}
    /\ UNCHANGED <<gameState, input, twin>>
    /\ PairFrame

(* a key event of the second run only *)
SecondKey(k, down) ==
    /\ k \in SecondKeys
    /\ twin' = [twin EXCEPT !.keys = IF down THEN @ \cup {k} ELSE @ \ {k}]
    /\ UNCHANGED <<keys, gameState, input>>
    /\ PairFrame

(* InputSystem.update called in both runs *)
PairUpdate ==
    LET a == InputSystem_update(TheWorld, keys)
        b == InputSystem_update(TwinWorld, twin.keys)
    IN  /\ gameState' = a.gameState
        /\ input' = a.input
        /\ twin' = [twin EXCEPT !.gameState = b.gameState, !.input = b.input]
        /\ UNCHANGED keys
        /\ PairFrame

NextPair ==
    \/ \E k \in PairKeys, down \in BOOLEAN : SharedKey(k, down)
    \/ \E k \in PairKeys, down \in BOOLEAN : FirstKey(k, down)
    \/ \E k \in PairKeys, down \in BOOLEAN : SecondKey(k, down)
    \/ PairUpdate

SpecPair == InitPair /\ [][NextPair]_vars

----------------------------------------------------------------------------
(* Properties *)

(* C1: for every entity with an Input component, attack and dash are never
   true after two consecutive updates, and are never true after an update at
   which their key was not held. *)
C1_EdgeNeverRepeatsNorOnRelease ==
    \A e \in hasInput :
        /\ ~(input[e].attack /\ hist.prevIntent[e].attack)
        /\ ~(input[e].dash /\ hist.prevIntent[e].dash)
        /\ input[e].attack => "Space" \in hist.snap
        /\ input[e].dash => hist.snap \cap ShiftKeys # {}

(* Space held over two consecutive updates: the first raised attack, the
   second did not. *)
C1_Witness ==
    /\ "Space" \in hist.snap
    /\ hist.heldPrev.attack
    /\ hist.prevIntent[1].attack
    /\ ~input[1].attack
    /\ input[1].attackPressedLastFrame

(* C2 as claimed: every physical press of Space (of a Shift key) is answered:
   the update that follows it raises attack (dash). *)
C2_EveryPressFires ==
    [][(hasInput # {} /\ hist.pending # {} /\ hist'.pending = {}) =>
          /\ "attack" \in hist.pending => \E e \in hasInput : input'[e].attack
          /\ "dash" \in hist.pending => \E e \in hasInput : input'[e].dash]_vars

(* C2 as amended: after every update attack (dash) is true exactly when Space
   (a Shift key) is held at that update and none was held at the update before
   it; and an intent is raised only after a physical press since the last
   update. *)
C2_EdgeIffNewlyHeld ==
    /\ \A e \in hasInput :
        /\ input[e].attack = ("Space" \in hist.snap /\ ~hist.heldPrev.attack)
        /\ input[e].dash = (hist.snap \cap ShiftKeys # {} /\ ~hist.heldPrev.dash)
    /\ ~hist.spurious

(* An update answered a fresh press of a Shift key with dash, while Space,
   held since the update before, raised no attack. *)
C2_Witness ==
    /\ input[1].dash
    /\ ~hist.heldPrev.dash
    /\ "Space" \in hist.snap
    /\ hist.heldPrev.attack
    /\ ~input[1].attack
    /\ hist.pending = {}

(* C3: two runs that receive the same Shift key events and updates agree on
   dash and dashPressedLastFrame whatever their other key events are; two runs
   that receive the same Space events agree on attack and
   attackPressedLastFrame. *)
C3_EdgesIndependent ==
    \A e \in hasInput :
        /\ twin.shared = "dash" =>
              /\ input[e].dash = twin.input[e].dash
              /\ input[e].dashPressedLastFrame = twin.input[e].dashPressedLastFrame
        /\ twin.shared = "attack" =>
              /\ input[e].attack = twin.input[e].attack
              /\ input[e].attackPressedLastFrame =
                     twin.input[e].attackPressedLastFrame

(* The runs agree on a raised dash while they differ in attack, in the
   direction intent and in the pause state. *)
C3_Witness ==
    /\ twin.shared = "dash"
    /\ input[1].dash /\ twin.input[1].dash
    /\ input[1].attack /\ ~twin.input[1].attack
    /\ input[1].up # twin.input[1].up
    /\ gameState # twin.gameState

(* C4: after every update the shadow flags of every Input component are the
   held state of their keys at that update. *)
C4_ShadowsTrackHeldKeys ==
    \A e \in hasInput :
        /\ input[e].attackPressedLastFrame = ("Space" \in hist.snap)
        /\ input[e].dashPressedLastFrame = (hist.snap \cap ShiftKeys # {})
        /\ input[e].pausePressedLastFrame = ("Escape" \in hist.snap)

(* The shadow flags are set although no edge fired at this update. *)
C4_Witness ==
    /\ input[1].attackPressedLastFrame /\ ~input[1].attack
    /\ input[1].dashPressedLastFrame /\ ~input[1].dash
    /\ input[1].pausePressedLastFrame
    /\ hist.heldPrev.attack /\ hist.heldPrev.dash

(* C5 as claimed: a world.update(0) on the registered pipeline changes no
   component. *)
C5_ZeroDeltaChangesNothing ==
    [][UpdateZero => UNCHANGED <<input, health, attacks, hasInput, hasHealth>>]_vars

(* C6 as claimed: every execution of animate() performs one world.update call,
   given the delta of the hit-pause service. *)
C6_UpdateOnEveryFrame ==
    lastFrame.n = 1 => lastFrame.calls = 1 /\ lastFrame.given

(* C6 as amended: an execution of animate() performs exactly one world.update
   call, given the delta of the hit-pause service, when that delta is
   positive, and none when it is zero. *)
C6_UpdateIffPositiveDelta ==
    lastFrame.n = 1 =>
        /\ lastFrame.positive => lastFrame.calls = 1 /\ lastFrame.given
        /\ ~lastFrame.positive => lastFrame.calls = 0 /\ lastFrame.ran = <<>>

(* A frame of the paused game: no world.update. *)
C6_Witness ==
    /\ lastFrame.n = 1
    /\ gameState = "paused"
    /\ ~lastFrame.positive
    /\ lastFrame.calls = 0

Before(ran, first, second) ==
    \E i, j \in DOMAIN ran : i < j /\ ran[i] = first /\ ran[j] = second

(* C7: in every world.update the systems run once each in registration order;
   InputSystem runs before DashSystem and PlayerAttackSystem, so that what
   these read is the intent written in this update, and DamageSystem runs
   before HealthSystem, so that the damage applied in this update is resolved
   in it. *)
C7_SystemsRunInOrder ==
    lastFrame.calls = 1 =>
        /\ lastFrame.ran = Systems
        /\ \A i, j \in DOMAIN lastFrame.ran :
              lastFrame.ran[i] = lastFrame.ran[j] => i = j
        /\ Before(lastFrame.ran, "InputSystem", "DashSystem")
        /\ Before(lastFrame.ran, "InputSystem", "PlayerAttackSystem")
        /\ Before(lastFrame.ran, "DamageSystem", "HealthSystem")
        /\ \A e \in hasInput : observed[e].dash = input[e].dash
        /\ \A e \in hasInput \cap armed : observed[e].attack = input[e].attack
        /\ \A e \in hasHealth : health[e].pendingDamage = 0

(* An update in which PlayerAttackSystem saw the attack intent raised in it and
   HealthSystem resolved the damage applied in it. *)
C7_Witness ==
    /\ lastFrame.calls = 1
    /\ input[1].attack /\ observed[1].attack
    /\ lastFrame.resolved > 0
    /\ health[2].current < health[2].max

(* C8 as claimed: damage from one attack id is applied to one entity at most
   once. *)
C8_DamageAtMostOncePerAttack ==
    \A e \in Entities : \A a \in AttackIds : hist.hits[e][a] <= 1

(* C9 as claimed: within a world.update LifespanSystem does not run before
   DamageSystem. *)
C9_LifespanNotBeforeDamage ==
    lastFrame.calls = 1 => ~Before(lastFrame.ran, "LifespanSystem", "DamageSystem")

(* C10: the current health of every Health component lies in [0, max]. *)
C10_HealthWithinBounds ==
    \A e \in Entities : 0 <= health[e].current /\ health[e].current <= health[e].max

(* Two attacks accumulated in one frame to more damage than the entity had
   health, and the resolution left it at 0. *)
C10_Witness ==
    /\ lastFrame.resolved > MaxHealth
    /\ hist.hits[2][1] = 1 /\ hist.hits[2][2] = 1
    /\ health[2].current = 0

(* The entity took a hit in this step: a damage application to it succeeded. *)
TookHit(e) == \E a \in AttackIds : hist'.hits[e][a] > hist.hits[e][a]

(* C11: while invulnerableRemaining > 0 no damage application changes
   Health.current; a Health component's window is set to invulnerableCooldown
   in exactly the frames in which a damage application to it succeeds and it
   survives; in every other frame the window only counts down, by the elapsed
   time, to 0, and the current health is left alone. *)
C11_InvulnerabilityWindow ==
    [][\A e \in hasHealth :
          LET h == health[e]
              after == health'[e]
          IN  /\ h.invulnerableRemaining > 0 => after.current = h.current
              /\ TookHit(e) /\ after.current > 0 =>
                    after.invulnerableRemaining = h.invulnerableCooldown
              /\ ~TookHit(e) =>
                    /\ after.current = h.current
                    /\ after.invulnerableRemaining <= h.invulnerableRemaining
              /\ (lastFrame'.calls = 1 /\ lastFrame' # lastFrame
                     /\ ~TookHit(e) /\ h.invulnerableRemaining > 0) =>
                    after.invulnerableRemaining < h.invulnerableRemaining
              /\ (h.invulnerableRemaining <= 0 /\ after.invulnerableRemaining > 0)
                    => TookHit(e) /\ after.current > 0]_vars

(* A frame refused a further hit on the entity that the hit of attack 1 had
   made invulnerable; the entity keeps the health that hit left it, and its
   window is still counting down. *)
C11_Witness ==
    /\ lastFrame.blocked
    /\ hist.hits[2][1] = 1 /\ hist.hits[2][2] = 0
    /\ health[2].current = MaxHealth - AttackDamage
    /\ health[2].invulnerableRemaining > 0
    /\ health[2].invulnerableRemaining < health[2].invulnerableCooldown

(* C12: onDeath is invoked once for an entity, in the frame in which its
   current health reaches 0, and never otherwise; the flush that ends that
   frame removes the entity from the entity store; and nothing changes the
   Health component of a dead entity or counts a hit on it afterwards. *)
C12_DeadIsTerminal ==
    /\ [](\A e \in Entities :
            /\ hist.deaths[e] = (IF health[e].current = 0 THEN 1 ELSE 0)
            /\ health[e].current = 0 => e \notin hasHealth /\ e \notin hasInput)
    /\ [][\A e \in Entities :
            /\ (health[e].current > 0 /\ health'[e].current = 0) =>
                  /\ hist'.deaths[e] = hist.deaths[e] + 1
                  /\ e \in hasHealth /\ e \notin hasHealth'
            /\ health[e].current = 0 =>
                  /\ health'[e] = health[e]
                  /\ hist'.hits[e] = hist.hits[e]
                  /\ hist'.deaths[e] = hist.deaths[e]
                  /\ e \notin hasHealth']_vars

(* The enemy died, onDeath was invoked once and the entity left the entity
   store; a later frame ran its update with a hitbox still active and resolved
   no damage. *)
C12_Witness ==
    /\ health[2].current = 0
    /\ hist.deaths[2] = 1
    /\ 2 \notin hasHealth
    /\ lastFrame.calls = 1 /\ lastFrame.resolved = 0
    /\ \E a \in AttackIds : attacks[a].state = "active"

(* C13: a frame's update leaves every entity without an Input component as it
   is (its components, and the place an Input component of it would take),
   adds and removes no component, and writes to the Input component of an
   entity what that component's own shadow flags and the keys held at the
   update give, whatever the other Input components hold. *)
C13_InputWritesOwnComponent ==
    /\ [](\A e \in Entities \ hasInput : input[e] = NewInput)
    /\ [][(animate /\ lastFrame'.calls = 1) =>
            /\ hasInput' = hasInput /\ hasHealth' = hasHealth
            /\ health' = health /\ attacks' = attacks
            /\ \A e \in Entities \ hasInput : input'[e] = input[e]
            /\ \A e \in hasInput :
                  /\ input'[e].attack =
                        ("Space" \in keys /\ ~input[e].attackPressedLastFrame)
                  /\ input'[e].dash =
                        (keys \cap ShiftKeys # {} /\ ~input[e].dashPressedLastFrame)
                  /\ input'[e].attackPressedLastFrame = ("Space" \in keys)
                  /\ input'[e].dashPressedLastFrame = (keys \cap ShiftKeys # {})
                  /\ input'[e].pausePressedLastFrame = ("Escape" \in keys)]_vars

(* Entity 2 was given its Input component while Space was held: the update
   that followed raised attack for it and not for entity 1, whose shadow flag
   was set by an update that passed entity 2 over. *)
C13_Witness ==
    /\ hasInput = {1, 2}
    /\ lastFrame.calls = 1
    /\ "Space" \in hist.snap /\ hist.heldPrev.attack
    /\ input[2].attack /\ ~input[1].attack
    /\ input[1].attackPressedLastFrame /\ input[2].attackPressedLastFrame
    /\ health[2] = NewHealth(0)

(* C14 as claimed: an update makes one pauseGame or resumeGame call, and
   leaves the game in the other pause state, when Escape is held at it and was
   not held at the update before it, and makes no call and leaves the pause
   state alone otherwise, however many entities hold an Input component. *)
C14_EscapeTogglesOnce ==
    [][(animate /\ lastFrame'.calls = 1 /\ hasInput # {}) =>
          IF "Escape" \in keys /\ "Escape" \notin hist.snap
          THEN lastFrame'.toggles = 1 /\ gameState' # gameState
          ELSE lastFrame'.toggles = 0 /\ gameState' = gameState]_vars

(* C15 as claimed: when the game is paused and Escape, released since, is
   pressed again and held, the game eventually resumes. *)
C15_PauseResumable ==
    (gameState = "paused" /\ "pause" \in hist.pending /\ "Escape" \in keys)
        ~> (gameState = "playing" \/ "Escape" \notin keys)

(* C16 as claimed: once the cleanup function has run, world.update is not
   called again, and the world holds no entity and no system, at whatever
   point of the animation loop the cleanup was called. *)
C16_TeardownIsFinal ==
    host.cleared =>
        /\ ~host.updatedAfter
        /\ hasInput = {} /\ hasHealth = {} /\ armed = {}
        /\ \A a \in AttackIds : attacks[a].state \in {"unspawned", "gone"}
        /\ TheWorld.detached

(* C17: after every update the direction intents of every Input component
   are the held state of their keys at that update: up of KeyW or ArrowUp,
   down of KeyS or ArrowDown, left of KeyA or ArrowLeft, right of KeyD or
   ArrowRight, whatever the update before it saw. *)
C17_DirectionsFollowHeldKeys ==
    \A e \in hasInput :
        /\ input[e].up = (hist.snap \cap {"KeyW", "ArrowUp"} # {})
        /\ input[e].down = (hist.snap \cap {"KeyS", "ArrowDown"} # {})
        /\ input[e].left = (hist.snap \cap {"KeyA", "ArrowLeft"} # {})
        /\ input[e].right = (hist.snap \cap {"KeyD", "ArrowRight"} # {})

(* ArrowUp was held over two consecutive updates and up is still raised;
   down is raised with it by KeyS, left and right are not. *)
C17_Witness ==
    /\ lastFrame.calls = 1
    /\ hist.snap = {"ArrowUp", "KeyS"}
    /\ hist.heldPrev.up
    /\ \A e \in hasInput :
          input[e].up /\ input[e].down /\ ~input[e].left /\ ~input[e].right
    /\ hasInput = {1, 2}

====
